---- MODULE Spec2Model ----
(***************************************************************************)
(* Control loop of the UI-testing agent.                                   *)
(*                                                                         *)
(*   Spec        the agent graph of src/src/agent.py (status / finish),    *)
(*               run as src/src/test_runner.py runs it (recursion_limit).  *)
(*   SpecLegacy  the agent graph of src/agent.py (task_success /           *)
(*               is_success / MAX_LLM_CALLS), run by src/test_runner.py.   *)
(*                                                                         *)
(* A graph node is one or more steps: llm_call is one step; tool_node is   *)
(* entered, runs its for-loop one tool invocation per step (each one is an *)
(* await), and returns its Command / state update in a last step.          *)
(***************************************************************************)
EXTENDS Integers, Sequences, FiniteSets, TLC

VARIABLES
    pc,            \* node the graph runs next: "llm_call", "tool_node",
                   \* "tool_loop" (inside tool_node's for-loop), "END", "raised",
                   \* "awaiting_llm" (llm_call waits for a reply that never comes)
    messages,      \* AgentState.messages: the transcript
    llm_calls,     \* AgentState.llm_calls
    status,        \* AgentState.status                 (src/src/agent.py)
    task_success,  \* AgentState.task_success           (src/agent.py)
    steps,         \* graph steps completed in this run (recursion_limit)
    error,         \* the exception that left the graph, "none" if none
    results,       \* tool_node: local list results
    done,          \* tool_node: number of tool_calls the for-loop has handled
    finished,      \* tool_node: local flag finished
    local_status,  \* tool_node: local variable status
    env_actions,   \* the operations run on the page: [id, outcome] of each
    page_success,  \* the page is in the state the success predicate accepts
    in_flight,     \* tool_node: tool coroutines started and not yet returned
    pred_raised,   \* llm_call (src/agent.py): is_success raised in the last call
    runner_pc,     \* run_test_case_browser: "streaming" or "returned"
    run_status,    \* run_test_case_browser: local status, the one it saves
    run_ok,        \* run_test_case_browser: the bool it returns
    \* run_all (src/src/test_runner.py, src/test_runner.py)
    agent_type,    \* "browser" or "computer"
    concurrency,   \* the concurrency argument
    sem,           \* value of the asyncio.Semaphore
    tasks,         \* position of each run_idx task
    ok_of,         \* the ok each run_test_case_* is about to return
    env_of,        \* environment instance of each session, "none" if none
    open_envs,     \* environment instances created and not yet closed
    summary,       \* results: the recorded result of each case, "none" if none
    run_all_pc,    \* "gathering", "closing", "returned" or "raised"
    \* the vision-grounded click tool (coord_click / click)
    click_args,    \* mode, api key present, button, num
    click_pc,      \* "start", "screenshot", "pointing", "clicking", "returned"
    point_reply,   \* how the Moondream point call ended
    click_outcome, \* how the click on the environment ended
    click_result,  \* the string the tool returns
    pointer_actions, \* pointer operations issued to the environment
    \* the UI manifest builder
    builder,       \* "common" (src/src/agent.py) or "legacy" (src/agent.py)
    snap,          \* what the accessibility snapshot call gave
    manifest,      \* what the builder returned
    observation,   \* llm_call: the user_msg handed to the decision-maker
    \* the wait tool
    wait_seconds,  \* the argument seconds
    wait_pc,       \* "start", "sleeping" or "returned"
    duration,      \* wait: local variable duration
    slept,         \* time units asyncio.sleep has let pass
    wait_result,   \* the string the tool returns
    \* the script executor: run(script_text, timeout)
    script,        \* script_text, as the syntax tree it parses to (if it does)
    script_pc,     \* "start", "executing" or "returned"
    script_result, \* the result string
    script_effects, \* what the script has done to the environment
    \* one call of save_run_to_api(run_id, url, prompt, status, messages, ts)
    auth_file,     \* what cli_auth.json holds when the call is made
    clock,         \* time.time() when the token is looked at
    save_args,     \* the status passed in, and whether the messages serialize
    api_reply,     \* how the API answers the POST
    save_pc,       \* "start", "serialize", "post", "handler", "returned", "raised"
    token,         \* what get_token_silent returned
    payload,       \* what was handed to requests.post
    sent,          \* requests.post was called
    caught         \* the exception the except clause holds

\* the runner's part of a session
runner_vars == << runner_pc, run_status, run_ok >>

agent_vars == << pc, messages, llm_calls, status, task_success, steps, error,
                 results, done, finished, local_status, env_actions,
                 page_success, in_flight, pred_raised, runner_vars >>

run_all_vars == << agent_type, concurrency, sem, tasks, ok_of, env_of,
                   open_envs, summary, run_all_pc >>

click_vars == << click_args, click_pc, point_reply, click_outcome,
                 click_result, pointer_actions >>

manifest_vars == << builder, snap, manifest, observation >>

wait_vars == << wait_seconds, wait_pc, duration, slept, wait_result >>

\* the parts of the program that stand apart from sessions, run_all, the
\* click tool and the manifest builder
script_vars == << script, script_pc, script_result, script_effects >>

save_vars == << auth_file, clock, save_args, api_reply, save_pc, token, payload,
               sent, caught >>

aux_vars == << wait_vars, script_vars, save_vars >>

\* what a step of one agent graph leaves alone
outside_agent == << run_all_vars, click_vars, manifest_vars, aux_vars >>

vars == << agent_vars, run_all_vars, click_vars, manifest_vars, aux_vars >>

(***************************************************************************)
(* Bounds of the model.                                                    *)
(***************************************************************************)
\* {"recursion_limit": 100} in the runner; the model runs the same rule
\* with a small limit.
RecursionLimit == 3

\* MAX_LLM_CALLS = 20 in src/agent.py; the model runs the same rule with a
\* small ceiling.
MAX_LLM_CALLS == 2

\* Longest list of tool_calls the decision-maker puts in one reply.
MaxToolCalls == 2

\* Number of test cases handed to run_all, at most.
NumCases == 3

\* Largest concurrency argument handed to run_all.
MaxConcurrency == 2

\* lines[:300]: the model keeps the same rule with a small cap.
ManifestCap == 2

\* Top-level items of a script, at most.
MaxTopLevel == 2

\* How far below 0 and above the tool's ceiling a requested wait may lie.
MaxOvershoot == 2

\* the ceiling of the wait tool: min(float(seconds), 10.0)
WaitCap == 10

\* is_token_expired: "give 30s buffer"
ExpiryBuffer == 30

\* The clock and the exp field of a token take the values 0, 25, 50, ...
ClockTicks == 3

\* Children of the root and children of each child of the root, at most.
MaxChildren == 2
MaxGrandChildren == 1

(***************************************************************************)
(* Strings that the code inspects are sequences of characters.             *)
(***************************************************************************)
UpperToLower ==
    [c \in {"A","C","D","E","F","I","K","L","N","O","R","S","T","U"} |->
        CASE c = "A" -> "a" [] c = "C" -> "c" [] c = "D" -> "d"
          [] c = "E" -> "e" [] c = "F" -> "f" [] c = "I" -> "i"
          [] c = "K" -> "k" [] c = "L" -> "l" [] c = "N" -> "n"
          [] c = "O" -> "o" [] c = "R" -> "r" [] c = "S" -> "s"
          [] c = "T" -> "t" [] c = "U" -> "u"]

\* str.lower()
Lower(s) ==
    [i \in 1..Len(s) |->
        IF s[i] \in DOMAIN UpperToLower THEN UpperToLower[s[i]] ELSE s[i]]

Whitespace == {" "}

RECURSIVE LStrip(_)
LStrip(s) ==
    IF s # <<>> /\ Head(s) \in Whitespace THEN LStrip(Tail(s)) ELSE s

RECURSIVE RStrip(_)
RStrip(s) ==
    IF s # <<>> /\ s[Len(s)] \in Whitespace
    THEN RStrip(SubSeq(s, 1, Len(s) - 1)) ELSE s

\* str.strip()
Strip(s) == RStrip(LStrip(s))

\* str.startswith(prefix)
StartsWith(s, prefix) ==
    /\ Len(s) >= Len(prefix)
    /\ SubSeq(s, 1, Len(prefix)) = prefix

TASK_SUCCESS_PREFIX == <<"t","a","s","k"," ","s","u","c","c","e","s","s">>
SUCCESS_PREFIX == <<"s","u","c","c","e","s","s">>
FAILURE_PREFIX == <<"f","a","i","l","u","r","e">>

(***************************************************************************)
(* What the decision-maker can reply.                                      *)
(***************************************************************************)
\* the args dict of a tool call carries no "reason" key
NoReason == <<"<missing>">>

\* reason texts the decision-maker gives to finish
Reasons ==
    { <<"T","a","s","k"," ","S","u","c","c","e","s","s">>,
      <<" "," ","S","U","C","C","E","S","S",":"," ","d","o","n","e"," ">>,
      <<"F","a","i","l","u","r","e">>,
      <<"T","a","s","k"," ","f","a","i","l","u","r","e">> }

\* tools_by_name of make_tools (browser registry)
tools_by_name ==
    { "click", "check", "input", "dropdown", "coord_click", "scroll",
      "type", "keypress", "goto", "back", "wait", "finish" }

\* supported_tool_names: the sorted, quoted, comma-joined registry names
supported_tool_names == tools_by_name

\* tools_by_name of src/agent.py (make_pw_tools): no finish tool
legacy_tools_by_name == { "click", "check", "input", "goto", "back" }

\* The invocations a reply may carry: a registered environment tool with
\* well-formed or ill-formed arguments, an unregistered name, and finish
\* with each reason, without reason, and with an ill-typed reason.
\* valid: the args satisfy the tool's argument schema.
ToolCallShapes ==
    [name : {"click"}, valid : BOOLEAN, reason : {NoReason}]
      \cup [name : {"bogus"}, valid : {TRUE}, reason : {NoReason}]
      \cup [name : {"finish"}, valid : {TRUE}, reason : Reasons \cup {NoReason}]
      \cup [name : {"finish"}, valid : {FALSE}, reason : {NoReason}]

LegacyToolCallShapes ==
    [name : {"click"}, valid : BOOLEAN, reason : {NoReason}]
      \cup [name : {"bogus"}, valid : {TRUE}, reason : {NoReason}]

SeqsUpTo(S, n) == UNION { [1..k -> S] : k \in 0..n }

Decisions == SeqsUpTo(ToolCallShapes, MaxToolCalls)
LegacyDecisions == SeqsUpTo(LegacyToolCallShapes, MaxToolCalls)

\* ai_msg.tool_calls: each call carries name, args and a unique id
ToolCalls(d, turn) ==
    [i \in 1..Len(d) |->
        [name |-> d[i].name, id |-> <<turn, i>>,
         args |-> [valid |-> d[i].valid, reason |-> d[i].reason]]]

operator_add_KeepsUpdate(old, update) == update

\* messages: Annotated[list[AnyMessage], operator.add] -- the reducer that
\* merges the "messages" of a node's update into the state
operator_add(old, update) == old \o update

HumanMessage(turn) == [type |-> "human", turn |-> turn]
AIMessage(d, turn) == [type |-> "ai", tool_calls |-> ToolCalls(d, turn)]
ToolMessage(content, id) == [type |-> "tool", content |-> content, tool_call_id |-> id]

\* state["messages"][-1].tool_calls
LastToolCalls == messages[Len(messages)].tool_calls

\* the tool call the for-loop of tool_node handles next
CurrentCall == LastToolCalls[done + 1]

(***************************************************************************)
(* Tools.                                                                  *)
(***************************************************************************)
\* How the awaited environment operation of a tool ends.
OpOutcomes == {"completed", "raised", "timeout"}

\* an operation that a tool started on the page, and how it ended
EnvAction(id, outcome) == [id |-> id, outcome |-> outcome]

RunWithTimeout_TimeoutUnnoticed(operation, outcome) ==
    IF outcome \in {"completed", "timeout"} THEN <<"OK", operation>>
    ELSE <<"ERROR", "Error", "operation failed">>

\* _run_with_timeout: "OK: <operation>" when the awaited operation
\* completes, "ERROR: <type>: <message>" when it raises or wait_for times out.
RunWithTimeout(operation, outcome) ==
    IF outcome = "completed" THEN <<"OK", operation>>
    ELSE IF outcome = "timeout" THEN <<"ERROR", "TimeoutError", "">>
    ELSE <<"ERROR", "Error", "operation failed">>

\* the finish tool: returns "TASK_COMPLETE: <reason>"
FinishTool(args) ==
    <<"TASK_COMPLETE", IF args.reason = NoReason THEN <<>> ELSE args.reason>>

\* content of the ToolMessage for a name that is not in tools_by_name
UnknownToolMessage(name, supported) == <<"ERROR", "Unknown tool", name, supported>>

FinishStatus_ElseFailure(prior, args) ==
    LET reason == Lower(Strip(IF args.reason = NoReason THEN <<>> ELSE args.reason))
    IN  IF StartsWith(reason, TASK_SUCCESS_PREFIX) \/ StartsWith(reason, SUCCESS_PREFIX)
        THEN "success"
        ELSE "failure"

\* tool_node's classification of a finish reason:
\*   reason = str(args.get("reason", "")).strip().lower()
FinishStatus(prior, args) ==
    LET reason == Lower(Strip(IF args.reason = NoReason THEN <<>> ELSE args.reason))
    IN  IF StartsWith(reason, TASK_SUCCESS_PREFIX) \/ StartsWith(reason, SUCCESS_PREFIX)
        THEN "success"
        ELSE IF StartsWith(reason, FAILURE_PREFIX) THEN "failure"
        ELSE prior

(***************************************************************************)
(* The agent graph of src/src/agent.py.                                    *)
(***************************************************************************)
\* no run_all in progress
RunAllIdle ==
    /\ agent_type = "browser"
    /\ concurrency = 0
    /\ sem = 0
    /\ tasks = <<>>
    /\ ok_of = <<>>
    /\ env_of = <<>>
    /\ open_envs = {}
    /\ summary = <<>>
    /\ run_all_pc = "idle"

\* no vision click in progress
ClickIdle ==
    /\ click_args = [mode |-> "browser", api_key |-> FALSE,
                     button |-> "left", num |-> "single"]
    /\ click_pc = "idle"
    /\ point_reply = [kind |-> "none"]
    /\ click_outcome = "none"
    /\ click_result = <<>>
    /\ pointer_actions = <<>>

\* no manifest being built
\* no wait tool is running
WaitIdle ==
    /\ wait_seconds = 0
    /\ wait_pc = "idle"
    /\ duration = 0
    /\ slept = 0
    /\ wait_result = <<>>

\* no script is being run
ScriptIdle ==
    /\ script = [parses |-> FALSE, body |-> <<>>]
    /\ script_pc = "idle"
    /\ script_result = <<>>
    /\ script_effects = <<>>

\* a token file entry, or none
NoToken == [kind |-> "none", parts |-> 0, payload |-> "none", exp |-> 0]

NothingCaught == [raised |-> FALSE, closing_tag |-> FALSE]

SaveIdle ==
    /\ auth_file = NoToken
    /\ clock = 0
    /\ save_args = [status |-> "in_progress", serializable |-> TRUE]
    /\ api_reply = [outcome |-> "200", closing_tag |-> FALSE]
    /\ save_pc = "idle"
    /\ token = NoToken
    /\ payload = [status |-> "none", token |-> NoToken]
    /\ sent = FALSE
    /\ caught = NothingCaught

AuxIdle == WaitIdle /\ ScriptIdle /\ SaveIdle

ManifestIdle ==
    /\ builder = "common"
    /\ snap = [kind |-> "none"]
    /\ manifest = [kind |-> "none"]
    /\ observation = [kind |-> "none"]

\* state handed to agent.astream by the runner:
\* {"messages": [], "llm_calls": 0, "status": "in_progress"}
Init ==
    /\ pc = "llm_call"
    /\ messages = <<>>
    /\ llm_calls = 0
    /\ status = "in_progress"
    /\ task_success = FALSE
    /\ steps = 0
    /\ error = "none"
    /\ results = <<>>
    /\ done = 0
    /\ finished = FALSE
    /\ local_status = "in_progress"
    /\ env_actions = <<>>
    /\ page_success = FALSE
    /\ in_flight = 0
    /\ pred_raised = FALSE
    /\ runner_pc = "streaming"
    /\ run_status = "running"
    /\ run_ok = FALSE
    /\ RunAllIdle
    /\ ClickIdle
    /\ ManifestIdle
    /\ AuxIdle

LlmCallGoto_AlwaysTools(d) == "tool_node"

LlmCallGoto_EndsOnNoCalls(d) == IF Len(d) > 0 THEN "tool_node" ELSE "END"

\* goto of llm_call: tool_node when the reply carries tool calls
LlmCallGoto(d) == IF Len(d) > 0 THEN "tool_node" ELSE "llm_call"

LlmCallsUpdate_Unchanged(n) == n

\* "llm_calls": state.get("llm_calls", 0) + 1
LlmCallsUpdate(n) == n + 1

\* llm_call: observe, ask the decision-maker, append [user_msg, ai_msg]
llm_call ==
    /\ pc = "llm_call"
    /\ steps < RecursionLimit
    /\ \E d \in Decisions :
          /\ messages' = operator_add(messages,
                            << HumanMessage(llm_calls + 1),
                               AIMessage(d, llm_calls + 1) >>)
          /\ pc' = LlmCallGoto(d)
    /\ llm_calls' = LlmCallsUpdate(llm_calls)
    /\ steps' = steps + 1
    /\ UNCHANGED << status, task_success, error, results, done, finished,
                    local_status, env_actions, page_success >>
    /\ run_status' = status
    /\ UNCHANGED << in_flight, pred_raised, runner_pc, run_ok >>
    /\ UNCHANGED outside_agent

\* llm_call, line 190: model_with_tools.ainvoke raises (API failure); there
\* is no try/except around it, the exception leaves the node and the graph
llm_call_raises ==
    /\ pc = "llm_call"
    /\ steps < RecursionLimit
    /\ pc' = "raised"
    /\ error' = "LLMError"
    /\ UNCHANGED << messages, llm_calls, status, task_success, steps, results,
                    done, finished, local_status, env_actions, page_success,
                    in_flight, pred_raised, runner_vars >>
    /\ UNCHANGED outside_agent

\* llm_call, lines 163-192: get_screenshot, get_manifest and
\* model_with_tools.ainvoke are awaited bare, without asyncio.wait_for; when
\* the awaited call never completes the node stays at its await
llm_call_hangs ==
    /\ pc = "llm_call"
    /\ steps < RecursionLimit
    /\ pc' = "awaiting_llm"
    /\ UNCHANGED << messages, llm_calls, status, task_success, steps, error,
                    results, done, finished, local_status, env_actions,
                    page_success, in_flight, pred_raised, runner_vars >>
    /\ UNCHANGED outside_agent

\* tool_node, lines 208-210: results = [], status = state status, finished = False
tool_node_enter ==
    /\ pc = "tool_node"
    /\ steps < RecursionLimit
    /\ pc' = "tool_loop"
    /\ results' = <<>>
    /\ done' = 0
    /\ finished' = FALSE
    /\ local_status' = status
    /\ UNCHANGED << messages, llm_calls, status, task_success, steps, error,
                    env_actions, page_success >>
    /\ UNCHANGED << in_flight, pred_raised, runner_vars >>
    /\ UNCHANGED outside_agent

AwaitReturned_NotAwaited(running) == TRUE

\* "observation = await t.ainvoke(...)": the statements after the await, and
\* with them the next iteration of the for-loop, run only when the awaited
\* coroutine has returned
AwaitReturned(running) == running = 0

\* for-loop body, name not in tools_by_name: error ToolMessage, continue
tool_unknown ==
    /\ pc = "tool_loop"
    /\ AwaitReturned(in_flight)
    /\ done < Len(LastToolCalls)
    /\ CurrentCall.name \notin tools_by_name
    /\ results' = Append(results,
          ToolMessage(UnknownToolMessage(CurrentCall.name, supported_tool_names),
                      CurrentCall.id))
    /\ done' = done + 1
    /\ UNCHANGED << pc, messages, llm_calls, status, task_success, steps, error,
                    finished, local_status, env_actions, page_success >>
    /\ UNCHANGED << in_flight, pred_raised, runner_vars >>
    /\ UNCHANGED outside_agent

\* t.ainvoke(args) checks the args against the tool's schema before the tool
\* body runs; on a mismatch it raises, and nothing in tool_node catches it.
AinvokeRejects(call) == ~call.args.valid

tool_invalid_args ==
    /\ pc = "tool_loop"
    /\ AwaitReturned(in_flight)
    /\ done < Len(LastToolCalls)
    /\ CurrentCall.name \in tools_by_name
    /\ AinvokeRejects(CurrentCall)
    /\ pc' = "raised"
    /\ error' = "ValidationError"
    /\ UNCHANGED << messages, llm_calls, status, task_success, steps, results,
                    done, finished, local_status, env_actions, page_success >>
    /\ UNCHANGED << in_flight, pred_raised, runner_vars >>
    /\ UNCHANGED outside_agent

\* for-loop body, an environment tool, first half: "await t.ainvoke(args)"
\* starts the tool's coroutine and tool_node waits at the await
tool_invoke_start ==
    /\ pc = "tool_loop"
    /\ AwaitReturned(in_flight)
    /\ done < Len(LastToolCalls)
    /\ CurrentCall.name \in tools_by_name \ {"finish"}
    /\ ~AinvokeRejects(CurrentCall)
    /\ in_flight' = in_flight + 1
    /\ UNCHANGED << pc, messages, llm_calls, status, task_success, steps, error,
                    results, done, finished, local_status, env_actions,
                    page_success, pred_raised, runner_vars >>
    /\ UNCHANGED outside_agent

NextCall_RetryOnError(n, content) == IF content[1] = "ERROR" THEN n ELSE n + 1

\* for tool_call in state["messages"][-1].tool_calls: the loop goes on to the
\* next tool_call whatever string the tool returned
NextCall(n, content) == n + 1

\* second half: the operation has run under _run_with_timeout, the await
\* returns the result string and it becomes a ToolMessage
tool_invoke_return ==
    /\ pc = "tool_loop"
    /\ in_flight > 0
    /\ \E outcome \in OpOutcomes :
          /\ results' = Append(results,
                ToolMessage(RunWithTimeout(CurrentCall.name, outcome), CurrentCall.id))
          /\ env_actions' = Append(env_actions, EnvAction(CurrentCall.id, outcome))
          /\ done' = NextCall(done, RunWithTimeout(CurrentCall.name, outcome))
    /\ in_flight' = in_flight - 1
    /\ UNCHANGED << pc, messages, llm_calls, status, task_success, steps, error,
                    finished, local_status, page_success, pred_raised,
                    runner_vars >>
    /\ UNCHANGED outside_agent

\* for-loop body, finish: the tool's string is recorded, finished is set and
\* the reason is classified (lines 242-252)
tool_finish ==
    /\ pc = "tool_loop"
    /\ AwaitReturned(in_flight)
    /\ done < Len(LastToolCalls)
    /\ CurrentCall.name = "finish"
    /\ ~AinvokeRejects(CurrentCall)
    /\ results' = Append(results, ToolMessage(FinishTool(CurrentCall.args), CurrentCall.id))
    /\ finished' = TRUE
    /\ local_status' = FinishStatus(local_status, CurrentCall.args)
    /\ done' = done + 1
    /\ UNCHANGED << pc, messages, llm_calls, status, task_success, steps, error,
                    env_actions, page_success >>
    /\ UNCHANGED << in_flight, pred_raised, runner_vars >>
    /\ UNCHANGED outside_agent

ToolNodeCommand_LoopsOn(fin, st) ==
    [status |-> st, goto |-> "llm_call"]

ToolNodeCommand_EndsWhenClassified(fin, st) ==
    [status |-> st, goto |-> IF st # "in_progress" THEN "END" ELSE "llm_call"]

\* the Command tool_node returns (lines 256-261): the update carries the
\* local status; goto is END when a finish was executed, else llm_call
ToolNodeCommand(fin, st) ==
    [status |-> st, goto |-> IF fin THEN "END" ELSE "llm_call"]

\* after the loop: Command(update = {messages: results, status}, goto)
tool_node_return ==
    /\ pc = "tool_loop"
    /\ AwaitReturned(in_flight)
    /\ done = Len(LastToolCalls)
    /\ messages' = operator_add(messages, results)
    /\ status' = ToolNodeCommand(finished, local_status).status
    /\ pc' = ToolNodeCommand(finished, local_status).goto
    /\ steps' = steps + 1
    /\ results' = <<>>
    /\ done' = 0
    /\ finished' = FALSE
    /\ local_status' = "in_progress"
    /\ UNCHANGED << llm_calls, task_success, error, env_actions, page_success >>
    /\ run_status' = status'
    /\ UNCHANGED << in_flight, pred_raised, runner_pc, run_ok >>
    /\ UNCHANGED outside_agent

\* astream(state, {"recursion_limit": 100}): when the limit of steps is
\* reached and a node is still due, the graph raises GraphRecursionError
graph_recursion_error ==
    /\ pc \in {"llm_call", "tool_node"}
    /\ steps >= RecursionLimit
    /\ pc' = "raised"
    /\ error' = "GraphRecursionError"
    /\ UNCHANGED << messages, llm_calls, status, task_success, steps, results,
                    done, finished, local_status, env_actions, page_success >>
    /\ UNCHANGED << in_flight, pred_raised, runner_vars >>
    /\ UNCHANGED outside_agent

Succeeded_UnlessFailure(last) == last # "failure"

\* return status == "success", run_id
Succeeded(last) == last = "success"

\* run_test_case_browser, line 163: the stream is exhausted, the runner
\* returns status == "success" (the finally clause saves status)
runner_return ==
    /\ runner_pc = "streaming"
    /\ pc = "END"
    /\ runner_pc' = "returned"
    /\ run_ok' = Succeeded(run_status)
    /\ UNCHANGED << pc, messages, llm_calls, status, task_success, steps, error,
                    results, done, finished, local_status, env_actions,
                    page_success, in_flight, pred_raised, run_status >>
    /\ UNCHANGED outside_agent

ExceptStatus_KeepsLast(last) == last

\* the except branch of the runner, line 169: status = "failure"
ExceptStatus(last) == "failure"

\* run_test_case_browser, lines 164-179: any exception of the stream is
\* caught, status = "failure", return False (the finally clause saves status)
runner_except ==
    /\ runner_pc = "streaming"
    /\ pc = "raised"
    /\ runner_pc' = "returned"
    /\ run_status' = ExceptStatus(run_status)
    /\ run_ok' = FALSE
    /\ UNCHANGED << pc, messages, llm_calls, status, task_success, steps, error,
                    results, done, finished, local_status, env_actions,
                    page_success, in_flight, pred_raised >>
    /\ UNCHANGED outside_agent

Next ==
    \/ llm_call
    \/ llm_call_raises
    \/ llm_call_hangs
    \/ tool_node_enter
    \/ tool_unknown
    \/ tool_invalid_args
    \/ tool_invoke_start
    \/ tool_invoke_return
    \/ tool_finish
    \/ tool_node_return
    \/ graph_recursion_error
    \/ runner_return
    \/ runner_except

Spec == Init /\ [][Next]_vars

\* The event loop runs every coroutine that is ready to run: a step that
\* stays possible is eventually taken.
SpecLive == Spec /\ WF_vars(Next)

(***************************************************************************)
(* The agent graph of src/agent.py.                                        *)
(***************************************************************************)
\* state handed to agent.ainvoke by the runner:
\* {"messages": [], "llm_calls": 0, "task_success": False}; the page of the
\* test case may or may not satisfy the success predicate from the start
InitLegacy ==
    /\ pc = "llm_call"
    /\ messages = <<>>
    /\ llm_calls = 0
    /\ status = "in_progress"
    /\ task_success = FALSE
    /\ steps = 0
    /\ error = "none"
    /\ results = <<>>
    /\ done = 0
    /\ finished = FALSE
    /\ local_status = "in_progress"
    /\ env_actions = <<>>
    /\ page_success \in BOOLEAN
    /\ in_flight = 0
    /\ pred_raised = FALSE
    /\ runner_pc = "streaming"
    /\ run_status = "running"
    /\ run_ok = FALSE
    /\ RunAllIdle
    /\ ClickIdle
    /\ ManifestIdle
    /\ AuxIdle

should_continue_from_llm_NoCeiling(success, calls, tool_calls) ==
    IF success THEN "END"
    ELSE IF Len(tool_calls) > 0 THEN "tool_node"
    ELSE "llm_call"

should_continue_from_llm_ToolsFirst(success, calls, tool_calls) ==
    IF Len(tool_calls) > 0 /\ calls < MAX_LLM_CALLS THEN "tool_node"
    ELSE IF success THEN "END"
    ELSE IF calls >= MAX_LLM_CALLS THEN "END"
    ELSE "llm_call"

\* should_continue_from_llm(state)
should_continue_from_llm(success, calls, tool_calls) ==
    IF success THEN "END"
    ELSE IF calls >= MAX_LLM_CALLS THEN "END"
    ELSE IF Len(tool_calls) > 0 THEN "tool_node"
    ELSE "llm_call"

\* should_continue_from_tool(state)
should_continue_from_tool(success) ==
    IF success THEN "END" ELSE "llm_call"

\* add_conditional_edges(source, path, path_map): the destinations the
\* branch of each node may be mapped to
LlmCallPathMap == {"tool_node", "END"}
ToolNodePathMap == {"llm_call", "END"}

\* How the call of the injected predicate is_success(page) ends.
PredicateOutcomes == {"returns", "raises"}

CheckSuccess_ErrorIsSuccess(prior, outcome, page) ==
    IF prior THEN TRUE
    ELSE IF outcome = "raises" THEN TRUE
    ELSE page

\* llm_call, lines 500-505: the predicate is asked only while task_success
\* is false; an exception of the predicate counts as False
CheckSuccess(prior, outcome, page) ==
    IF prior THEN TRUE
    ELSE IF outcome = "raises" THEN FALSE
    ELSE page

\* llm_call of src/agent.py followed by its conditional edge. A destination
\* that is not in the edge's path_map is a KeyError of the graph.
legacy_llm_call ==
    /\ pc = "llm_call"
    /\ \E d \in LegacyDecisions, outcome \in PredicateOutcomes :
          LET success == CheckSuccess(task_success, outcome, page_success)
              dest == should_continue_from_llm(success, llm_calls + 1, d)
          IN  /\ messages' = operator_add(messages,
                                << HumanMessage(llm_calls + 1),
                                   AIMessage(d, llm_calls + 1) >>)
              /\ task_success' = success
              /\ pred_raised' = (~task_success /\ outcome = "raises")
              /\ IF dest \in LlmCallPathMap
                 THEN pc' = dest /\ error' = error
                 ELSE pc' = "raised" /\ error' = "KeyError"
    /\ llm_calls' = LlmCallsUpdate(llm_calls)
    /\ steps' = steps + 1
    /\ UNCHANGED << status, results, done, finished, local_status,
                    env_actions, page_success >>
    /\ UNCHANGED << in_flight, runner_vars >>
    /\ UNCHANGED outside_agent

\* tool_node of src/agent.py, line 520: results = []
legacy_tool_node_enter ==
    /\ pc = "tool_node"
    /\ pc' = "tool_loop"
    /\ results' = <<>>
    /\ done' = 0
    /\ UNCHANGED << messages, llm_calls, status, task_success, steps, error,
                    finished, local_status, env_actions, page_success >>
    /\ UNCHANGED << in_flight, pred_raised, runner_vars >>
    /\ UNCHANGED outside_agent

\* for-loop body, name not in tools_by_name
legacy_tool_unknown ==
    /\ pc = "tool_loop"
    /\ done < Len(LastToolCalls)
    /\ CurrentCall.name \notin legacy_tools_by_name
    /\ results' = Append(results,
          ToolMessage(UnknownToolMessage(CurrentCall.name, legacy_tools_by_name),
                      CurrentCall.id))
    /\ done' = done + 1
    /\ UNCHANGED << pc, messages, llm_calls, status, task_success, steps, error,
                    finished, local_status, env_actions, page_success >>
    /\ UNCHANGED << in_flight, pred_raised, runner_vars >>
    /\ UNCHANGED outside_agent

\* t.ainvoke(args) raises on args that do not fit the schema
legacy_tool_invalid_args ==
    /\ pc = "tool_loop"
    /\ done < Len(LastToolCalls)
    /\ CurrentCall.name \in legacy_tools_by_name
    /\ AinvokeRejects(CurrentCall)
    /\ pc' = "raised"
    /\ error' = "ValidationError"
    /\ UNCHANGED << messages, llm_calls, status, task_success, steps, results,
                    done, finished, local_status, env_actions, page_success >>
    /\ UNCHANGED << in_flight, pred_raised, runner_vars >>
    /\ UNCHANGED outside_agent

\* for-loop body, a registered tool: its operation runs on the page under
\* _run_with_timeout; the page may enter or leave the success state
legacy_tool_invoke ==
    /\ pc = "tool_loop"
    /\ done < Len(LastToolCalls)
    /\ CurrentCall.name \in legacy_tools_by_name
    /\ ~AinvokeRejects(CurrentCall)
    /\ \E outcome \in OpOutcomes, after \in BOOLEAN :
          /\ results' = Append(results,
                ToolMessage(RunWithTimeout(CurrentCall.name, outcome), CurrentCall.id))
          /\ page_success' = after
          /\ env_actions' = Append(env_actions, EnvAction(CurrentCall.id, outcome))
    /\ done' = done + 1
    /\ UNCHANGED << pc, messages, llm_calls, status, task_success, steps, error,
                    finished, local_status >>
    /\ UNCHANGED << in_flight, pred_raised, runner_vars >>
    /\ UNCHANGED outside_agent

ToolNodeSuccess_AlwaysTrue(prior) == TRUE

\* tool_node, line 539: success = state.get("task_success", False)
ToolNodeSuccess(prior) == prior

\* after the loop: {"messages": results, "task_success": success}, then the
\* conditional edge should_continue_from_tool
legacy_tool_node_return ==
    /\ pc = "tool_loop"
    /\ done = Len(LastToolCalls)
    /\ messages' = operator_add(messages, results)
    /\ task_success' = ToolNodeSuccess(task_success)
    /\ LET dest == should_continue_from_tool(ToolNodeSuccess(task_success))
       IN  IF dest \in ToolNodePathMap
           THEN pc' = dest /\ error' = error
           ELSE pc' = "raised" /\ error' = "KeyError"
    /\ steps' = steps + 1
    /\ results' = <<>>
    /\ done' = 0
    /\ UNCHANGED << llm_calls, status, finished, local_status, env_actions,
                    page_success >>
    /\ UNCHANGED << in_flight, pred_raised, runner_vars >>
    /\ UNCHANGED outside_agent

NextLegacy ==
    \/ legacy_llm_call
    \/ legacy_tool_node_enter
    \/ legacy_tool_unknown
    \/ legacy_tool_invalid_args
    \/ legacy_tool_invoke
    \/ legacy_tool_node_return

SpecLegacy == InitLegacy /\ [][NextLegacy]_vars

(***************************************************************************)
(* run_all: the sessions of the test cases behind the semaphore.           *)
(***************************************************************************)
\* no agent graph is being stepped
AgentIdle ==
    /\ pc = "idle"
    /\ messages = <<>>
    /\ llm_calls = 0
    /\ status = "in_progress"
    /\ task_success = FALSE
    /\ steps = 0
    /\ error = "none"
    /\ results = <<>>
    /\ done = 0
    /\ finished = FALSE
    /\ local_status = "in_progress"
    /\ env_actions = <<>>
    /\ page_success = FALSE
    /\ in_flight = 0
    /\ pred_raised = FALSE
    /\ runner_pc = "idle"
    /\ run_status = "running"
    /\ run_ok = FALSE

outside_run_all == << agent_vars, click_vars, manifest_vars, aux_vars >>

Max(a, b) == IF a >= b THEN a ELSE b

Gate_AsGiven(c) == c

\* asyncio.Semaphore(max(1, concurrency))
Gate(c) == Max(1, c)

SemLocked_Never(value) == FALSE

\* Semaphore.locked(): acquire waits while the value is zero
SemLocked(value) == value = 0

NoEnv == << "none" >>

\* browser.new_context(): every call gives a context of its own
NewContext(i) == << "context", i >>

\* Computer(os_type="linux", provider_type="docker", image=...,
\*          name="my-xfce-sandbox"): the sandbox is addressed by its name
NewComputer(i) == << "sandbox", "my-xfce-sandbox" >>

Cases == DOMAIN tasks

\* the tasks run until run_all has returned or raised (asyncio.run then
\* cancels what is left)
LoopRunning == run_all_pc \in {"gathering", "closing"}

InitRunAll ==
    /\ AgentIdle
    /\ ClickIdle
    /\ ManifestIdle
    /\ AuxIdle
    /\ agent_type \in {"browser", "computer"}
    /\ concurrency \in 0..MaxConcurrency
    /\ sem = Gate(concurrency)
    /\ \E n \in 0..NumCases :
          /\ tasks = [i \in 1..n |-> "queued"]
          /\ ok_of = [i \in 1..n |-> FALSE]
          /\ env_of = [i \in 1..n |-> NoEnv]
          /\ summary = [i \in 1..n |-> "none"]
    /\ open_envs = {}
    /\ run_all_pc = "gathering"

\* run_idx: "async with sem" entered
sem_acquire ==
    \E i \in Cases :
        /\ LoopRunning
        /\ tasks[i] = "queued"
        /\ ~SemLocked(sem)
        /\ sem' = sem - 1
        /\ tasks' = [tasks EXCEPT ![i] = "acquired"]
        /\ UNCHANGED << agent_type, concurrency, ok_of, env_of, open_envs, summary,
                        run_all_pc >>
        /\ UNCHANGED outside_run_all

\* run_test_case_browser, line 133: context = await browser.new_context(),
\* outside any try; an exception leaves run_idx through "async with sem"
browser_new_context ==
    \E i \in Cases :
        /\ LoopRunning
        /\ agent_type = "browser"
        /\ tasks[i] = "acquired"
        /\ \E raises \in BOOLEAN :
              IF raises
              THEN /\ tasks' = [tasks EXCEPT ![i] = "raised"]
                   /\ sem' = sem + 1
                   /\ UNCHANGED << env_of, open_envs >>
              ELSE /\ tasks' = [tasks EXCEPT ![i] = "context"]
                   /\ env_of' = [env_of EXCEPT ![i] = NewContext(i)]
                   /\ open_envs' = open_envs \cup {NewContext(i)}
                   /\ sem' = sem
        /\ UNCHANGED << agent_type, concurrency, ok_of, summary, run_all_pc >>
        /\ UNCHANGED outside_run_all

\* run_test_case_browser, line 141: page = await context.new_page(), outside
\* the try: on an exception the finally clause (context.close) is not reached
browser_new_page ==
    \E i \in Cases :
        /\ LoopRunning
        /\ agent_type = "browser"
        /\ tasks[i] = "context"
        /\ \E raises \in BOOLEAN :
              IF raises
              THEN /\ tasks' = [tasks EXCEPT ![i] = "raised"]
                   /\ sem' = sem + 1
              ELSE /\ tasks' = [tasks EXCEPT ![i] = "running"]
                   /\ sem' = sem
        /\ UNCHANGED << agent_type, concurrency, ok_of, env_of, open_envs, summary,
                        run_all_pc >>
        /\ UNCHANGED outside_run_all

\* run_test_case_computer, lines 209-214: computer = Computer(...)
computer_create ==
    \E i \in Cases :
        /\ LoopRunning
        /\ agent_type = "computer"
        /\ tasks[i] = "acquired"
        /\ tasks' = [tasks EXCEPT ![i] = "starting"]
        /\ env_of' = [env_of EXCEPT ![i] = NewComputer(i)]
        /\ UNCHANGED << agent_type, concurrency, sem, ok_of, open_envs, summary,
                        run_all_pc >>
        /\ UNCHANGED outside_run_all

\* run_test_case_computer, line 223: await computer.run(), inside the try:
\* an exception is caught (status failure) and the finally clause follows
computer_run ==
    \E i \in Cases :
        /\ LoopRunning
        /\ agent_type = "computer"
        /\ tasks[i] = "starting"
        /\ \E raises \in BOOLEAN :
              IF raises
              THEN /\ tasks' = [tasks EXCEPT ![i] = "closing"]
                   /\ ok_of' = [ok_of EXCEPT ![i] = FALSE]
                   /\ open_envs' = open_envs
              ELSE /\ tasks' = [tasks EXCEPT ![i] = "running"]
                   /\ ok_of' = ok_of
                   /\ open_envs' = open_envs \cup {env_of[i]}
        /\ UNCHANGED << agent_type, concurrency, sem, env_of, summary, run_all_pc >>
        /\ UNCHANGED outside_run_all

\* the try block of run_test_case_*: navigation and the agent run; every
\* exception is caught, the function is about to return ok
session_body ==
    \E i \in Cases :
        /\ LoopRunning
        /\ tasks[i] = "running"
        /\ \E ok \in BOOLEAN : ok_of' = [ok_of EXCEPT ![i] = ok]
        /\ tasks' = [tasks EXCEPT ![i] = "closing"]
        /\ UNCHANGED << agent_type, concurrency, sem, env_of, open_envs, summary,
                        run_all_pc >>
        /\ UNCHANGED outside_run_all

\* run_test_case_browser, finally clause, line 195: await context.close() is
\* not guarded; when it returns, run_idx records results[i] and leaves
\* "async with sem"
browser_close ==
    \E i \in Cases :
        /\ LoopRunning
        /\ agent_type = "browser"
        /\ tasks[i] = "closing"
        /\ \E raises \in BOOLEAN :
              IF raises
              THEN /\ tasks' = [tasks EXCEPT ![i] = "raised"]
                   /\ UNCHANGED << open_envs, summary >>
              ELSE /\ tasks' = [tasks EXCEPT ![i] = "done"]
                   /\ open_envs' = open_envs \ {env_of[i]}
                   /\ summary' = [summary EXCEPT ![i] = IF ok_of[i] THEN "ok" ELSE "fail"]
        /\ sem' = sem + 1
        /\ UNCHANGED << agent_type, concurrency, ok_of, env_of, run_all_pc >>
        /\ UNCHANGED outside_run_all

\* run_test_case_computer, finally clause, lines 254-257: computer.stop()
\* with its exceptions swallowed; then results[i] and the release
computer_stop ==
    \E i \in Cases :
        /\ LoopRunning
        /\ agent_type = "computer"
        /\ tasks[i] = "closing"
        /\ tasks' = [tasks EXCEPT ![i] = "done"]
        /\ open_envs' = open_envs \ {env_of[i]}
        /\ summary' = [summary EXCEPT ![i] = IF ok_of[i] THEN "ok" ELSE "fail"]
        /\ sem' = sem + 1
        /\ UNCHANGED << agent_type, concurrency, ok_of, env_of, run_all_pc >>
        /\ UNCHANGED outside_run_all

\* await asyncio.gather(*tasks): returns when every task has returned
gather_returns ==
    /\ run_all_pc = "gathering"
    /\ \A i \in Cases : tasks[i] = "done"
    /\ run_all_pc' = IF agent_type = "browser" THEN "closing" ELSE "returned"
    /\ UNCHANGED << agent_type, concurrency, sem, tasks, ok_of, env_of,
                    open_envs, summary >>
    /\ UNCHANGED outside_run_all

\* await asyncio.gather(*tasks) without return_exceptions: the first
\* exception of a task is raised to run_all; the other tasks are not cancelled
gather_raises ==
    /\ run_all_pc = "gathering"
    /\ \E i \in Cases : tasks[i] = "raised"
    /\ run_all_pc' = IF agent_type = "browser" THEN "closing" ELSE "raised"
    /\ UNCHANGED << agent_type, concurrency, sem, tasks, ok_of, env_of,
                    open_envs, summary >>
    /\ UNCHANGED outside_run_all

\* finally: await browser.close(), which closes every context of the
\* browser; then run_all returns its summary or re-raises
browser_closed ==
    /\ run_all_pc = "closing"
    /\ open_envs' = {}
    /\ run_all_pc' = IF \E i \in Cases : tasks[i] = "raised"
                     THEN "raised" ELSE "returned"
    /\ UNCHANGED << agent_type, concurrency, sem, tasks, ok_of, env_of, summary >>
    /\ UNCHANGED outside_run_all

NextRunAll ==
    \/ sem_acquire
    \/ browser_new_context
    \/ browser_new_page
    \/ computer_create
    \/ computer_run
    \/ session_body
    \/ browser_close
    \/ computer_stop
    \/ gather_returns
    \/ gather_raises
    \/ browser_closed

SpecRunAll == InitRunAll /\ [][NextRunAll]_vars

(***************************************************************************)
(* The vision-grounded click tool: coord_click of src/browser_tools.py and *)
(* click of src/src/computer_tools.py.                                     *)
(***************************************************************************)
outside_click == << agent_vars, run_all_vars, manifest_vars, aux_vars >>

\* viewport the browser tool scales the normalised point to
ScreenWidth == 1280
ScreenHeight == 720

\* image.size of the sandbox screenshot
ImageSize == << 1024, 768 >>

\* normalised coordinates: 0 and 1 stand for the ends of the range 0.0 .. 1.0
Coords == {0, 1}
Points == [x : Coords, y : {1}]

\* How model.point(image, prompt) under asyncio.wait_for ends: the timeout
\* elapses, the call raises, or it returns a dict without "points", or with
\* a list of points that may be empty.
PointReplies ==
    { [kind |-> k, points |-> <<>>] : k \in {"timeout", "raises", "no_field", "points"} }
    \cup { [kind |-> "points", points |-> << p >>] : p \in Points }
    \cup { [kind |-> "points", points |-> << p, q >>] : p \in Points, q \in Points }

PointCallFails_TimeoutUnnoticed(reply) == reply.kind = "raises"

\* the point call did not return a result
PointCallFails(reply) == reply.kind \in {"timeout", "raises"}

ReturnedPoints_OriginIfNone(reply) ==
    IF reply.kind = "points" /\ reply.points # <<>>
    THEN reply.points ELSE << [x |-> 0, y |-> 0] >>

\* points = result.get("points") or []
ReturnedPoints(reply) ==
    IF reply.kind = "points" THEN reply.points ELSE <<>>

\* the strings the tool returns
NoApiKeyError == << "ERROR", "MOONDREAM_API_KEY environment variable is not set" >>
PointTimeoutError == << "ERROR", "Timeout during Moondream point call", "" >>
NoPointsError == << "ERROR", "Moondream returned no points" >>
ClickTimeoutError(mode) ==
    << "ERROR", IF mode = "browser" THEN "Timeout during Playwright click"
                ELSE "Timeout during computer click", "" >>
CaughtError == << "ERROR", "Error", "operation failed" >>
PointString(point) == << "POINT", point.x, point.y >>

\* _do_click: the pointer operations of the click at the scaled point
PointerOps(args, point) ==
    IF args.mode = "browser"
    THEN << << "mouse.click", point.x * ScreenWidth, point.y * ScreenHeight,
               args.button >> >>
    ELSE LET x_scaled == point.x * ImageSize[1]
             y_scaled == point.y * ImageSize[2]
         IN  IF args.num = "double"
             THEN << << "double_click", x_scaled, y_scaled >> >>
             ELSE IF args.button = "right"
             THEN << << "right_click", x_scaled, y_scaled >> >>
             ELSE << << "move_cursor", x_scaled, y_scaled >>, << "left_click" >> >>

\* the tool is called with its arguments; MOONDREAM_API_KEY is set or not
InitClick ==
    /\ AgentIdle
    /\ RunAllIdle
    /\ ManifestIdle
    /\ AuxIdle
    /\ click_args \in [mode : {"browser", "computer"}, api_key : BOOLEAN,
                       button : {"left", "right"}, num : {"single", "double"}]
    /\ click_pc = "start"
    /\ point_reply = [kind |-> "none"]
    /\ click_outcome = "none"
    /\ click_result = <<>>
    /\ pointer_actions = <<>>

\* api_key = os.getenv("MOONDREAM_API_KEY"); if not api_key: return ERROR
click_check_key ==
    /\ click_pc = "start"
    /\ IF click_args.api_key
       THEN click_pc' = "screenshot" /\ click_result' = click_result
       ELSE click_pc' = "returned" /\ click_result' = NoApiKeyError
    /\ UNCHANGED << click_args, point_reply, click_outcome, pointer_actions >>
    /\ UNCHANGED outside_click

\* png_bytes = await page.screenshot(...) / interface.screenshot(); an
\* exception goes to the outer except
click_screenshot ==
    /\ click_pc = "screenshot"
    /\ \E raises \in BOOLEAN :
          IF raises
          THEN click_pc' = "returned" /\ click_result' = CaughtError
          ELSE click_pc' = "pointing" /\ click_result' = click_result
    /\ UNCHANGED << click_args, point_reply, click_outcome, pointer_actions >>
    /\ UNCHANGED outside_click

\* result = await asyncio.wait_for(asyncio.to_thread(_call_moondream), timeout)
\* and the test of the points it returned
click_point ==
    /\ click_pc = "pointing"
    /\ \E reply \in PointReplies :
          /\ point_reply' = reply
          /\ IF PointCallFails(reply)
             THEN /\ click_pc' = "returned"
                  /\ click_result' = IF reply.kind = "timeout"
                                     THEN PointTimeoutError ELSE CaughtError
             ELSE IF ReturnedPoints(reply) = <<>>
             THEN click_pc' = "returned" /\ click_result' = NoPointsError
             ELSE click_pc' = "clicking" /\ click_result' = click_result
    /\ UNCHANGED << click_args, click_outcome, pointer_actions >>
    /\ UNCHANGED outside_click

\* await asyncio.wait_for(_do_click(), timeout) at points[0]; when the click
\* does not complete, any part of its pointer operations may have happened
click_do ==
    /\ click_pc = "clicking"
    /\ LET point == ReturnedPoints(point_reply)[1]
           ops == PointerOps(click_args, point)
       IN  \E outcome \in OpOutcomes :
              /\ click_outcome' = outcome
              /\ IF outcome = "completed"
                 THEN /\ pointer_actions' = ops
                      /\ click_result' = PointString(point)
                 ELSE /\ \E n \in 0..Len(ops) : pointer_actions' = SubSeq(ops, 1, n)
                      /\ click_result' = IF outcome = "timeout"
                                         THEN ClickTimeoutError(click_args.mode)
                                         ELSE CaughtError
    /\ click_pc' = "returned"
    /\ UNCHANGED << click_args, point_reply >>
    /\ UNCHANGED outside_click

NextClick ==
    \/ click_check_key
    \/ click_screenshot
    \/ click_point
    \/ click_do

SpecClick == InitClick /\ [][NextClick]_vars

(***************************************************************************)
(* The UI manifest builder: build_ui_manifest_common of src/src/agent.py   *)
(* and build_ui_manifest of src/agent.py.                                  *)
(***************************************************************************)
outside_manifest == << agent_vars, run_all_vars, click_vars, aux_vars >>

\* A node of the accessibility tree: its role ("none" when it has none),
\* whether it has a name, whether it is marked hidden, and its children.
Node(kind, children) ==
    [role |-> kind.role, name |-> kind.name, hidden |-> kind.hidden,
     children |-> children]

VisibleButton == [role |-> "button", name |-> TRUE, hidden |-> FALSE]
HiddenButton == [role |-> "button", name |-> TRUE, hidden |-> TRUE]
Anonymous == [role |-> "none", name |-> FALSE, hidden |-> FALSE]
WebArea == [role |-> "WebArea", name |-> TRUE, hidden |-> FALSE]

\* The trees of the model: a root with up to MaxChildren children, each with
\* up to MaxGrandChildren children.
Leaves == { Node(k, <<>>) : k \in {VisibleButton, HiddenButton, Anonymous} }
InnerNodes ==
    { Node(k, c) : k \in {VisibleButton, HiddenButton},
                   c \in SeqsUpTo(Leaves, MaxGrandChildren) }
Trees ==
    { Node(k, c) : k \in {WebArea, Anonymous},
                   c \in SeqsUpTo(InnerNodes, MaxChildren) }

NoTree == Node(Anonymous, <<>>)

\* What the snapshot call gives: it raises, it gives nothing, or a tree.
Snapshots ==
    { [kind |-> k, root |-> NoTree] : k \in {"raises", "empty"} }
    \cup { [kind |-> "tree", root |-> t] : t \in Trees }

\* roles_of_interest of src/agent.py, and the roles it lists without a name
roles_of_interest ==
    { "button", "link", "textbox", "checkbox", "radio", "combobox", "option",
      "tab", "tablist", "tabpanel", "heading", "menuitem", "listitem", "group",
      "dialog", "spinbutton", "slider", "switch", "progressbar", "alert" }
NamelessRoles == { "heading", "group", "tablist", "tabpanel" }

\* the test under which walk appends a line for a node
Emits(b, node) ==
    IF b = "common"
    THEN ~node.hidden /\ (node.role # "none" \/ node.name)
    ELSE /\ ~node.hidden
         /\ node.role \in roles_of_interest
         /\ (node.name \/ node.role \in NamelessRoles)

\* the line of a node: "- <role>: <name>"; path tells which node it is
Line(node, path) ==
    [path |-> path,
     role |-> IF node.role = "none" THEN "(no role)" ELSE node.role,
     name |-> IF node.name THEN "name" ELSE "(no name)"]

RECURSIVE walk(_, _, _)
RECURSIVE walk_children(_, _, _, _)

\* walk(node): the node's own line if it emits one, then its children in
\* order, each walked in full before the next
walk(b, node, path) ==
    (IF Emits(b, node) THEN << Line(node, path) >> ELSE <<>>)
        \o walk_children(b, node.children, path, 1)

walk_children(b, children, path, i) ==
    IF i > Len(children) THEN <<>>
    ELSE walk(b, children[i], Append(path, i))
            \o walk_children(b, children, path, i + 1)

Min(a, b) == IF a <= b THEN a ELSE b

Cap_KeepsLast(lines) ==
    SubSeq(lines, Len(lines) - Min(Len(lines), ManifestCap) + 1, Len(lines))

\* lines[:300]
Cap(lines) == SubSeq(lines, 1, Min(Len(lines), ManifestCap))

\* the builder is about to take the snapshot
InitManifest ==
    /\ AgentIdle
    /\ RunAllIdle
    /\ ClickIdle
    /\ builder \in {"common", "legacy"}
    /\ snap \in Snapshots
    /\ manifest = [kind |-> "pending", lines |-> <<>>]
    /\ observation = [kind |-> "none"]
    /\ AuxIdle

OnSnapshotError_Propagates == [kind |-> "raised", lines |-> <<>>]

\* except Exception as e: return f"UI_MANIFEST_ERROR: {type(e).__name__}: {e}"
OnSnapshotError == [kind |-> "UI_MANIFEST_ERROR", lines |-> <<>>]

\* build_ui_manifest_common / build_ui_manifest
build_ui_manifest ==
    /\ manifest.kind = "pending"
    /\ manifest' =
          IF snap.kind = "raises" THEN OnSnapshotError
          ELSE IF snap.kind = "empty" THEN [kind |-> "UI_MANIFEST_EMPTY", lines |-> <<>>]
          ELSE LET lines == walk(builder, snap.root, <<>>)
               IN  IF lines = <<>>
                   THEN [kind |-> "UI_MANIFEST_EMPTY", lines |-> <<>>]
                   ELSE [kind |-> "lines", lines |-> Cap(lines)]
    /\ UNCHANGED << builder, snap, observation >>
    /\ UNCHANGED outside_manifest

\* llm_call after the builder has returned: user_msg is put together from the
\* url, the screenshot and the manifest, and the model is invoked with it
llm_call_ainvoke ==
    /\ manifest.kind \notin {"pending", "raised"}
    /\ observation.kind = "none"
    /\ observation' =
          [kind |-> "user_msg", image |-> "png", manifest |-> manifest]
    /\ UNCHANGED << builder, snap, manifest >>
    /\ UNCHANGED outside_manifest

NextManifest ==
    \/ build_ui_manifest
    \/ llm_call_ainvoke

SpecManifest == InitManifest /\ [][NextManifest]_vars

(***************************************************************************)
(* The wait tool: wait of src/browser_tools.py and of                      *)
(* src/src/computer_tools.py.  Time is counted in whole seconds.           *)
(***************************************************************************)
outside_wait == << agent_vars, run_all_vars, click_vars, manifest_vars,
                  script_vars, save_vars >>

\* the values of seconds a decision may ask for
RequestedSeconds == (0 - MaxOvershoot)..(WaitCap + MaxOvershoot)

Clamp_NoCeiling(seconds) == Max(0, seconds)

\* max(0.0, min(float(seconds), 10.0))
Clamp(seconds) == Max(0, Min(seconds, WaitCap))

\* f"OK: waited {duration} seconds"
WaitedString(d) == << "OK", "waited", d, "seconds" >>

InitWait ==
    /\ AgentIdle
    /\ RunAllIdle
    /\ ClickIdle
    /\ ManifestIdle
    /\ ScriptIdle
    /\ SaveIdle
    /\ wait_seconds \in RequestedSeconds
    /\ wait_pc = "start"
    /\ duration = 0
    /\ slept = 0
    /\ wait_result = <<>>

\* duration = max(0.0, min(float(seconds), 10.0)); asyncio.sleep is entered
wait_clamp ==
    /\ wait_pc = "start"
    /\ duration' = Clamp(wait_seconds)
    /\ wait_pc' = "sleeping"
    /\ UNCHANGED << wait_seconds, slept, wait_result >>
    /\ UNCHANGED outside_wait

\* await asyncio.sleep(duration): one more second has passed
wait_sleep ==
    /\ wait_pc = "sleeping"
    /\ slept < duration
    /\ slept' = slept + 1
    /\ UNCHANGED << wait_seconds, wait_pc, duration, wait_result >>
    /\ UNCHANGED outside_wait

\* asyncio.sleep returns once duration has passed; the tool returns its string
wait_return ==
    /\ wait_pc = "sleeping"
    /\ slept >= duration
    /\ wait_result' = WaitedString(duration)
    /\ wait_pc' = "returned"
    /\ UNCHANGED << wait_seconds, duration, slept >>
    /\ UNCHANGED outside_wait

NextWait ==
    \/ wait_clamp
    \/ wait_sleep
    \/ wait_return

SpecWait == InitWait /\ [][NextWait]_vars

(***************************************************************************)
(* The script executor: run(script_text, timeout).                         *)
(***************************************************************************)
outside_script == << agent_vars, run_all_vars, click_vars, manifest_vars,
                    wait_vars, save_vars >>

\* a top-level item of a script: a function definition (asynchronous or
\* not, with its name and its number of parameters) or any other statement
Definitions ==
    [kind : {"async_def", "def"}, name : {"main", "helper"}, arity : 0..2]
Statement == [kind |-> "stmt", name |-> "", arity |-> 0]
TopLevelItems == Definitions \cup {Statement}

\* script_text: it does not parse, or it parses to a list of top-level items
Scripts ==
    { [parses |-> FALSE, body |-> <<>>] }
    \cup { [parses |-> TRUE, body |-> b] : b \in SeqsUpTo(TopLevelItems, MaxTopLevel) }

FormatValid_AnyArity(text) ==
    /\ text.parses
    /\ Len(text.body) = 1
    /\ text.body[1].kind = "async_def"
    /\ text.body[1].name = "main"

\* the validation: exactly one top-level item, an asynchronous function
\* named main that accepts a single parameter
FormatValid(text) ==
    /\ text.parses
    /\ Len(text.body) = 1
    /\ text.body[1].kind = "async_def"
    /\ text.body[1].name = "main"
    /\ text.body[1].arity = 1

\* how the call main(handle) ends under its timeout
MainOutcomes == {"returned", "raised", "timeout"}

InitScript ==
    /\ AgentIdle
    /\ RunAllIdle
    /\ ClickIdle
    /\ ManifestIdle
    /\ WaitIdle
    /\ SaveIdle
    /\ script \in Scripts
    /\ script_pc = "start"
    /\ script_result = <<>>
    /\ script_effects = <<>>

\* parse and validate; a script that fails yields "ERROR: format: ..."
script_validate ==
    /\ script_pc = "start"
    /\ IF FormatValid(script)
       THEN /\ script_pc' = "executing"
            /\ script_result' = script_result
       ELSE /\ script_pc' = "returned"
            /\ script_result' = << "ERROR", "format" >>
    /\ UNCHANGED << script, script_effects >>
    /\ UNCHANGED outside_script

\* build main in the restricted namespace and call main(handle) under the
\* timeout: "OK: <repr>" on success, an error string on exception or timeout
script_execute ==
    /\ script_pc = "executing"
    /\ \E outcome \in MainOutcomes :
          /\ script_effects' = Append(script_effects, << "main", outcome >>)
          /\ script_result' =
                IF outcome = "returned" THEN << "OK", "repr" >>
                ELSE << "ERROR", outcome, "screenshot" >>
    /\ script_pc' = "returned"
    /\ UNCHANGED script
    /\ UNCHANGED outside_script

NextScript ==
    \/ script_validate
    \/ script_execute

SpecScript == InitScript /\ [][NextScript]_vars

(***************************************************************************)
(* Persisting a run: save_run_to_api (src/src/test_runner.py) and the      *)
(* token lookup of src/src/cli_auth.py.                                    *)
(***************************************************************************)
outside_save == << agent_vars, run_all_vars, click_vars, manifest_vars,
                  wait_vars, script_vars >>

Times == { 25 * k : k \in 0..ClockTicks }

\* cli_auth.json: absent, not JSON, JSON without a token, or JSON with a
\* token of so many dot-separated parts whose payload part does not decode
\* ("garbled"), decodes without exp ("no_exp") or decodes with exp ("exp")
AuthFiles ==
    [kind : {"absent", "not_json", "no_token"}, parts : {0},
     payload : {"none"}, exp : {0}]
    \cup [kind : {"token"}, parts : {2, 3},
          payload : {"garbled", "no_exp", "exp"}, exp : Times]

\* is_token_expired(token) at time now
is_token_expired(t, now) ==
    IF t.parts # 3 THEN TRUE
    ELSE IF t.payload = "garbled" THEN TRUE
    ELSE IF t.payload = "no_exp" \/ t.exp = 0 THEN TRUE
    ELSE now > t.exp - ExpiryBuffer

\* get_token_silent(): the token, or None
get_token_silent(file, now) ==
    IF file.kind # "token" THEN NoToken
    ELSE IF is_token_expired(file, now) THEN NoToken
    ELSE file

\* console.print(text) of rich renders console markup: a closing tag in the
\* text that matches no open tag raises MarkupError
ConsolePrintRaises(has_unmatched_closing_tag) == has_unmatched_closing_tag

InitSave ==
    /\ AgentIdle
    /\ RunAllIdle
    /\ ClickIdle
    /\ ManifestIdle
    /\ WaitIdle
    /\ ScriptIdle
    /\ auth_file \in AuthFiles
    /\ clock \in Times
    /\ save_args \in [status : {"in_progress", "success", "failure"},
                      serializable : BOOLEAN]
    /\ api_reply \in [outcome : {"200", "non200", "network_error"},
                  closing_tag : BOOLEAN]
    /\ save_pc = "start"
    /\ token = NoToken
    /\ payload = [status |-> "none", token |-> NoToken]
    /\ sent = FALSE
    /\ caught = NothingCaught

\* token = cli_auth.get_token_silent(); if not token: return
save_get_token ==
    /\ save_pc = "start"
    /\ token' = get_token_silent(auth_file, clock)
    /\ save_pc' = IF token'.kind = "none" THEN "returned" ELSE "serialize"
    /\ UNCHANGED << auth_file, clock, save_args, api_reply, payload, sent, caught >>
    /\ UNCHANGED outside_save

\* the transcript and the payload are put into JSON form; a failure is
\* caught by the except clause
save_serialize ==
    /\ save_pc = "serialize"
    /\ IF save_args.serializable
       THEN /\ save_pc' = "post"
            /\ caught' = caught
       ELSE /\ save_pc' = "handler"
            /\ caught' = [raised |-> TRUE, closing_tag |-> FALSE]
    /\ UNCHANGED << auth_file, clock, save_args, api_reply, token, payload, sent >>
    /\ UNCHANGED outside_save

\* requests.post(...); a status other than 200 prints a warning that holds
\* response.text, and what that print raises is caught like any other
\* exception (its message quotes the tag)
save_post ==
    /\ save_pc = "post"
    /\ sent' = TRUE
    /\ payload' = [status |-> save_args.status, token |-> token]
    /\ IF api_reply.outcome = "network_error"
       THEN /\ save_pc' = "handler"
            /\ caught' = [raised |-> TRUE, closing_tag |-> FALSE]
       ELSE IF api_reply.outcome = "non200" /\ ConsolePrintRaises(api_reply.closing_tag)
       THEN /\ save_pc' = "handler"
            /\ caught' = [raised |-> TRUE, closing_tag |-> TRUE]
       ELSE /\ save_pc' = "returned"
            /\ caught' = caught
    /\ UNCHANGED << auth_file, clock, save_args, api_reply, token >>
    /\ UNCHANGED outside_save

\* except Exception as e: console.print(f"... {e} ..."), outside any try
save_handler ==
    /\ save_pc = "handler"
    /\ save_pc' = IF ConsolePrintRaises(caught.closing_tag)
                  THEN "raised" ELSE "returned"
    /\ UNCHANGED << auth_file, clock, save_args, api_reply, token, payload, sent,
                    caught >>
    /\ UNCHANGED outside_save

NextSave ==
    \/ save_get_token
    \/ save_serialize
    \/ save_post
    \/ save_handler

SpecSave == InitSave /\ [][NextSave]_vars

(***************************************************************************)
(* Reading the transcript.                                                 *)
(***************************************************************************)
Range(seq) == { seq[i] : i \in DOMAIN seq }

\* AI messages of the transcript, and every tool call they carry
Replies == { m \in Range(messages) : m.type = "ai" }
IssuedCalls == UNION { Range(m.tool_calls) : m \in Replies }

\* tool results, recorded in the transcript or still local to tool_node
ToolResults == { m \in Range(messages) \cup Range(results) : m.type = "tool" }

\* position of the last reply of the decision-maker in the transcript
LastReplyAt ==
    CHOOSE i \in DOMAIN messages :
        /\ messages[i].type = "ai"
        /\ \A j \in DOMAIN messages : j > i => messages[j].type # "ai"

LastReplyCalls == messages[LastReplyAt].tool_calls

\* a finish invocation has been executed and its result is in the transcript
FinishRecorded ==
    \E m \in Range(messages) : m.type = "tool" /\ m.content[1] = "TASK_COMPLETE"

\* tool_node has handled an invocation of an unregistered name in this turn
UnknownHandled ==
    \E m \in Range(results) : m.content[1] = "ERROR" /\ m.content[2] = "Unknown tool"

\* The status each reason text of Reasons stands for, read off the text:
\* "Task Success" and "  SUCCESS: done " begin with success, "Failure"
\* begins with failure, "Task failure" and a missing reason with neither.
ExpectedStatus(reason) ==
    CASE reason = <<"T","a","s","k"," ","S","u","c","c","e","s","s">> -> "success"
      [] reason = <<" "," ","S","U","C","C","E","S","S",":"," ","d","o","n","e"," ">>
            -> "success"
      [] reason = <<"F","a","i","l","u","r","e">> -> "failure"
      [] OTHER -> "in_progress"

Stopped == pc \in {"END", "raised"}

(***************************************************************************)
(* Properties of the agent graph of src/src/agent.py (Spec).              *)
(***************************************************************************)

C2_CallsAfterFinishIgnored ==
    (pc = "tool_loop" /\ finished) =>
        LET first == CHOOSE i \in 1..done :
                        /\ LastToolCalls[i].name = "finish"
                        /\ \A j \in 1..(i - 1) : LastToolCalls[j].name # "finish"
        IN  /\ \A k \in DOMAIN env_actions :
                  \A i \in (first + 1)..done : env_actions[k].id # LastToolCalls[i].id
            /\ local_status = FinishStatus(status, LastToolCalls[first].args)

\* C3: for every finish invocation the session status becomes the status its
\* reason stands for: success, failure, or in_progress for any other text.
C3_EveryFinishSetsStatus ==
    pc = "END" =>
        \A i \in DOMAIN LastReplyCalls :
            LastReplyCalls[i].name = "finish"
                => status = ExpectedStatus(LastReplyCalls[i].args.reason)

\* C4: any executed finish ends the loop, whatever its reason: a tool_node
\* that executed a finish returns to END, a transcript that records a finish
\* result belongs to a session at END, and no llm_call runs once a finish
\* has been executed.
C4_FinishEndsLoop ==
    /\ [](FinishRecorded => pc = "END")
    /\ [][(pc = "tool_loop" /\ finished /\ pc' \notin {"tool_loop", "raised"})
            => pc' = "END"]_vars
    /\ [][((pc = "tool_loop" /\ finished) \/ FinishRecorded)
            => llm_calls' = llm_calls]_vars

\* a session at END whose finish reason classified as neither success nor
\* failure: status is still in_progress
C4_Witness ==
    /\ pc = "END"
    /\ status = "in_progress"
    /\ FinishRecorded

\* C5: a session whose decision-maker answers every call, never invokes
\* finish and issues only well-formed invocations stops after exactly
\* RecursionLimit llm_call executions, with a status other than success and
\* without an exception.
C5_BudgetStopsQuietly ==
    (/\ Stopped
     /\ error # "LLMError"
     /\ \A c \in IssuedCalls : c.name # "finish" /\ c.args.valid)
        => (llm_calls = RecursionLimit /\ status # "success" /\ error = "none")

\* C8: handling a tool invocation never raises into tool_node: no session
\* stops with an exception of a tool invocation.
C8_NoToolExceptionEscapes ==
    ~(pc = "raised" /\ error = "ValidationError")

\* C9: a tool that wraps an operation in _run_with_timeout returns
\* "OK: ..." exactly when the operation completed, and "ERROR: <kind>:
\* <message>" when it raised or timed out; either way the for-loop got the
\* result and moved on: every operation run on the page has its one result.
C9_RunWithTimeoutContract ==
    /\ \A k \in DOMAIN env_actions :
          LET a == env_actions[k]
              r == { m \in ToolResults : m.tool_call_id = a.id }
          IN  /\ Cardinality(r) = 1
              /\ \A m \in r :
                    /\ m.content[1] = "OK" <=> a.outcome = "completed"
                    /\ a.outcome # "completed"
                          => m.content[1] = "ERROR" /\ Len(m.content) = 3
                    /\ a.outcome = "timeout" => m.content[2] = "TimeoutError"
    /\ pc = "tool_loop" => Len(results) = done

\* an operation timed out, its error string is in the transcript and the
\* loop is back at llm_call
C9_Witness ==
    /\ pc = "llm_call"
    /\ \E k \in DOMAIN env_actions : env_actions[k].outcome = "timeout"
    /\ \E m \in Range(messages) :
          m.type = "tool" /\ m.content = <<"ERROR", "TimeoutError", "">>

\* C10: an invocation of an unregistered name never fails the turn: it gets
\* an error result that lists the supported names and runs no operation on
\* the page; once tool_node has handled one, the for-loop runs through the
\* remaining invocations of the decision and, unless one of them was a
\* finish, the graph goes back to llm_call with the status unchanged.
C10_UnknownToolTurnContinues ==
    /\ [](\A m \in ToolResults :
            (m.content[1] = "ERROR" /\ m.content[2] = "Unknown tool")
                => /\ m.content[4] = supported_tool_names
                   /\ \A k \in DOMAIN env_actions :
                         env_actions[k].id # m.tool_call_id)
    /\ [][(pc = "tool_loop" /\ UnknownHandled /\ pc' # "tool_loop")
            => (/\ done = Len(LastToolCalls)
                /\ ~finished => (pc' = "llm_call" /\ status' = status))]_vars

\* C11: the tool invocations of a decision run one at a time, in the order
\* issued: at most one tool coroutine is in flight, it is the invocation
\* after the ones already answered, the operations reach the page in the
\* order of the tool_calls, and the results -- in tool_node's list and, once
\* tool_node has returned, in the transcript right after the reply -- are one
\* per invocation, in the same order, each with its tool_call_id.
C11_InvocationsInOrder ==
    /\ in_flight <= 1
    /\ pc = "tool_loop" =>
          /\ Len(results) = done
          /\ done + in_flight <= Len(LastToolCalls)
          /\ \A i \in 1..done : results[i].tool_call_id = LastToolCalls[i].id
    /\ \A k \in DOMAIN env_actions : \A l \in DOMAIN env_actions :
          k < l => \/ env_actions[k].id[1] < env_actions[l].id[1]
                   \/ /\ env_actions[k].id[1] = env_actions[l].id[1]
                      /\ env_actions[k].id[2] < env_actions[l].id[2]
    /\ \A p \in DOMAIN messages :
          (messages[p].type = "ai" /\ p < Len(messages)
              /\ Len(messages[p].tool_calls) > 0)
            => \A i \in DOMAIN messages[p].tool_calls :
                  /\ p + i <= Len(messages)
                  /\ messages[p + i].type = "tool"
                  /\ messages[p + i].tool_call_id = messages[p].tool_calls[i].id

\* two operations of one decision have run on the page and tool_node has
\* returned their results to the transcript
C11_Witness ==
    /\ pc = "llm_call"
    /\ \E k \in DOMAIN env_actions :
          /\ k + 1 \in DOMAIN env_actions
          /\ env_actions[k].id[1] = env_actions[k + 1].id[1]
          /\ \E p \in DOMAIN messages :
                /\ p + 1 \in DOMAIN messages
                /\ messages[p].type = "tool"
                /\ messages[p + 1].type = "tool"
                /\ messages[p].tool_call_id = env_actions[k].id
                /\ messages[p + 1].tool_call_id = env_actions[k + 1].id

\* C12: an error of the decision-maker during llm_call is not swallowed: it
\* leaves the graph, no llm_call or tool step follows it, and the runner
\* catches it, records the session with status failure and returns False.
C12_LlmErrorIsFatal ==
    /\ [](error = "LLMError" =>
            /\ pc = "raised"
            /\ runner_pc = "returned" => (run_status = "failure" /\ ~run_ok))
    /\ [][error = "LLMError"
            => UNCHANGED << pc, messages, llm_calls, status, env_actions >>]_vars
    /\ [][(error = "LLMError" /\ runner_pc' # runner_pc)
            => (runner_pc' = "returned" /\ run_status' = "failure")]_vars

\* the decision-maker failed in a later turn, after tools had run, and the
\* runner has returned
C12_Witness ==
    /\ error = "LLMError"
    /\ runner_pc = "returned"
    /\ run_status = "failure"
    /\ llm_calls > 0
    /\ env_actions # <<>>

(***************************************************************************)
(* Properties of the agent graph of src/agent.py (SpecLegacy).            *)
(***************************************************************************)

\* C6: when the tools executed during turn k leave the page in the state
\* the success predicate accepts and turn k + 1 is within the call budget,
\* the session does not stop before it has reached END with task_success.
C6_SuccessSeenNextTurn ==
    (/\ Stopped
     /\ page_success
     /\ env_actions # <<>>
     /\ env_actions[Len(env_actions)].id[1] = llm_calls
     /\ llm_calls < MAX_LLM_CALLS)
        => task_success

\* C7: a true success predicate supersedes the decision: task_success is set
\* only by an llm_call step, that step goes to END, and none of the tool
\* invocations of that step's reply is executed.
C7_SuccessSupersedesDecision ==
    /\ [](task_success =>
            /\ pc = "END"
            /\ messages[Len(messages)].type = "ai"
            /\ \A k \in DOMAIN env_actions : env_actions[k].id[1] # llm_calls)
    /\ [][(~task_success /\ task_success') => (pc = "llm_call" /\ pc' = "END")]_vars

\* the predicate was true while calls were left in the budget and the reply
\* carried tool invocations: the session is at END and they were not run
C7_Witness ==
    /\ task_success
    /\ pc = "END"
    /\ llm_calls < MAX_LLM_CALLS
    /\ Len(messages[Len(messages)].tool_calls) > 0

\* C13: an exception of the success predicate is caught inside llm_call and
\* counts as "not yet successful": task_success stays false, and the step
\* goes where should_continue_from_llm sends a session whose predicate
\* returned false -- to tool_node with the reply's invocations, to END at the
\* budget -- with no exception of the predicate leaving the node.
C13_PredicateErrorIsFalse ==
    /\ [](pred_raised => ~task_success)
    /\ [][(pred_raised' /\ llm_calls' = llm_calls + 1) =>
            LET reply == messages'[Len(messages')]
                dest == should_continue_from_llm(FALSE, llm_calls', reply.tool_calls)
            IN  /\ pc' = IF dest \in LlmCallPathMap THEN dest ELSE "raised"
                /\ Len(reply.tool_calls) > 0 => (pc' # "raised" /\ error' = error)]_vars

\* the predicate raised on a page that is in the success state, and the
\* session went on to run the tools of the reply
C13_Witness ==
    /\ pred_raised
    /\ page_success
    /\ pc = "tool_loop"
    /\ done > 0

(***************************************************************************)
(* Properties of run_all (SpecRunAll).                                     *)
(***************************************************************************)
\* sessions inside "async with sem": admitted and not yet returned or raised
ActiveSessions ==
    { i \in Cases : tasks[i] \in {"acquired", "context", "starting",
                                  "running", "closing"} }

\* sessions whose environment instance is up
SessionsWithEnv ==
    { i \in Cases : tasks[i] \in {"context", "running", "closing"}
                    /\ env_of[i] \in open_envs }

C15_EverySessionRecorded ==
    /\ \A i \in Cases : tasks[i] # "raised"
    /\ run_all_pc # "raised"
    /\ run_all_pc = "returned" => \A i \in Cases : summary[i] # "none"

\* C16: sessions that are active at the same time never share an
\* environment instance, in browser and in computer mode: two sessions
\* whose environment is up have different instances.
C16_EnvironmentsNotShared ==
    \A i \in Cases : \A j \in Cases :
        (i # j /\ i \in SessionsWithEnv /\ j \in SessionsWithEnv)
            => env_of[i] # env_of[j]

(***************************************************************************)
(* Properties of the vision-grounded click tool (SpecClick).               *)
(***************************************************************************)
\* C17: every result string a registered tool returns begins with "OK:" or
\* with "ERROR:"; here for the strings the vision click tool returns.
C17_ResultIsOkOrError ==
    click_pc = "returned" => click_result[1] \in {"OK", "ERROR"}

\* C18: when the pointing call returns an empty points list, or a result
\* without a points field, the tool returns the error "no points" and issues
\* no click and no cursor movement.
C18_NoPointsNoClick ==
    (\/ point_reply.kind = "no_field"
     \/ point_reply.kind = "points" /\ point_reply.points = <<>>)
        => /\ click_pc = "returned"
           /\ click_result = NoPointsError
           /\ click_outcome = "none"
           /\ pointer_actions = <<>>

\* the pointing call answered "points: []" and the tool has returned
C18_Witness ==
    /\ click_pc = "returned"
    /\ point_reply = [kind |-> "points", points |-> <<>>]
    /\ click_result[1] = "ERROR"

\* C19: the pointing call and the click each run under a timeout of their
\* own: a timeout of the pointing call gives its error result and no click is
\* ever issued; a timeout of the click gives the click's error result; and a
\* pointer operation is only issued after the pointing call has returned a
\* point, at that point.
C19_TwoGuardedPhases ==
    /\ point_reply.kind = "timeout" =>
          /\ click_pc = "returned"
          /\ click_result = PointTimeoutError
          /\ click_outcome = "none"
          /\ pointer_actions = <<>>
    /\ click_outcome = "timeout" =>
          /\ click_pc = "returned"
          /\ click_result = ClickTimeoutError(click_args.mode)
    /\ (click_pc = "clicking" \/ click_outcome # "none" \/ pointer_actions # <<>>) =>
          /\ point_reply.kind = "points"
          /\ point_reply.points # <<>>
          /\ \A k \in DOMAIN pointer_actions :
                pointer_actions[k] = PointerOps(click_args, point_reply.points[1])[k]

\* the pointing call returned a point in time and the click then timed out
\* after the cursor had been moved
C19_Witness ==
    /\ click_pc = "returned"
    /\ point_reply.kind = "points"
    /\ click_outcome = "timeout"
    /\ Len(pointer_actions) = 1
    /\ pointer_actions[1][1] = "move_cursor"

(***************************************************************************)
(* Properties of the manifest builder (SpecManifest).                      *)
(***************************************************************************)
\* the node of the tree at a path of child positions
RECURSIVE NodeAt(_, _)
NodeAt(node, path) ==
    IF path = <<>> THEN node
    ELSE NodeAt(node.children[path[1]], Tail(path))

RECURSIVE IsPath(_, _)
IsPath(node, path) ==
    \/ path = <<>>
    \/ /\ path[1] \in DOMAIN node.children
       /\ IsPath(node.children[path[1]], Tail(path))

\* the paths of the nodes of the snapshot for which walk emits a line
EmittablePaths ==
    { q \in SeqsUpTo(1..Max(MaxChildren, MaxGrandChildren), 2) :
        IsPath(snap.root, q) /\ Emits(builder, NodeAt(snap.root, q)) }

\* depth-first, parent-before-child order of two different nodes: a node
\* comes before its descendants, and before everything under a later sibling
\* of it or of one of its ancestors
Before(q, r) ==
    \/ Len(q) < Len(r) /\ SubSeq(r, 1, Len(q)) = q
    \/ \E k \in 1..Min(Len(q), Len(r)) :
          /\ SubSeq(q, 1, k - 1) = SubSeq(r, 1, k - 1)
          /\ q[k] < r[k]

OutsideHiddenSubtrees ==
    { q \in SeqsUpTo(1..Max(MaxChildren, MaxGrandChildren), 2) :
        /\ IsPath(snap.root, q)
        /\ \A k \in 0..Len(q) : ~NodeAt(snap.root, SubSeq(q, 1, k)).hidden }

\* the node exposes a role or a name
Exposes(node) == node.role # "none" \/ node.name

\* C21: no node marked hidden and no descendant of one produces a line, and
\* a node outside every hidden subtree produces a line if and only if it
\* exposes a role or a name (as far as the cap lets the listing go).
C21_HiddenSubtreesSkipped ==
    manifest.kind = "lines" =>
        LET kept == { manifest.lines[k].path : k \in DOMAIN manifest.lines }
            due == { q \in OutsideHiddenSubtrees : Exposes(NodeAt(snap.root, q)) }
        IN  /\ kept \subseteq due
            /\ Cardinality(due) <= ManifestCap => kept = due

\* C22: a failure of the snapshot call becomes the placeholder
\* UI_MANIFEST_ERROR, an empty snapshot or a tree without an emittable node
\* becomes UI_MANIFEST_EMPTY, the builder never raises, and llm_call goes on
\* to invoke the decision-maker with a user_msg that carries that manifest.
C22_ObserveNeverRaises ==
    /\ manifest.kind # "raised"
    /\ manifest.kind # "pending" =>
          /\ snap.kind = "raises" => manifest.kind = "UI_MANIFEST_ERROR"
          /\ snap.kind = "empty" => manifest.kind = "UI_MANIFEST_EMPTY"
          /\ (snap.kind = "tree" /\ EmittablePaths = {})
                => manifest.kind = "UI_MANIFEST_EMPTY"
          /\ observation.kind = "none" => ENABLED llm_call_ainvoke
    /\ observation.kind # "none" => observation.manifest = manifest

\* the decision-maker has been invoked with the error placeholder
C22_Witness ==
    /\ snap.kind = "raises"
    /\ observation.kind = "user_msg"
    /\ observation.manifest.kind = "UI_MANIFEST_ERROR"

(***************************************************************************)
(* Further properties of the agent graph of src/src/agent.py (Spec).       *)
(***************************************************************************)
\* the step is an llm_call that completed: it appended [user_msg, ai_msg]
LlmCallStep == pc = "llm_call" /\ Len(messages') = Len(messages) + 2

\* the transcript ends with a reply that carries no tool call
LastReplyIsEmpty ==
    /\ messages # <<>>
    /\ messages[Len(messages)].type = "ai"
    /\ messages[Len(messages)].tool_calls = <<>>

\* C23: an llm_call whose reply carries zero tool calls always routes back
\* to llm_call, leaves the status alone and still counts as a turn; it never
\* ends the session.  After such a reply the next llm_call is ready to run
\* as long as the runner's recursion limit has not been reached.
C23_ZeroCallsLoopBack ==
    /\ [][(LlmCallStep /\ messages'[Len(messages')].tool_calls = <<>>)
            => (/\ pc' = "llm_call"
                /\ llm_calls' = llm_calls + 1
                /\ status' = status)]_vars
    /\ [](LastReplyIsEmpty =>
            /\ pc \notin {"END", "tool_node", "tool_loop"}
            /\ (pc = "llm_call" /\ steps < RecursionLimit) => ENABLED llm_call)

\* two replies without a tool call in a row, and the graph is at llm_call
C23_Witness ==
    /\ pc = "llm_call"
    /\ LastReplyIsEmpty
    /\ Len(messages) >= 4
    /\ messages[Len(messages) - 2].tool_calls = <<>>
    /\ llm_calls = 2

\* C24: no await of the loop waits forever: whatever the decision-maker and
\* the environment do, every session eventually stops (at END or with an
\* error) and the runner returns.
C24_NeverBlocksForever == <>(Stopped /\ runner_pc = "returned")

C26_SavedStatusIsTerminal ==
    runner_pc = "returned" =>
        run_status \in {"success", "failure", "unresolved", "exception"}

(***************************************************************************)
(* Properties of the transcript and the turn counter (Spec).               *)
(***************************************************************************)
\* what a step added at the end of the transcript
Appended == SubSeq(messages', Len(messages) + 1, Len(messages'))

\* the step is a tool_node that returned its Command
ToolNodeStep == pc = "tool_loop" /\ pc' \in {"llm_call", "END"}

\* C27: the transcript is append-only: every step leaves the transcript it
\* found as a prefix of the new one; an llm_call appends exactly one
\* observation followed by one decision, a tool_node exactly its tool
\* results, and no other step touches the transcript.
C27_TranscriptAppendOnly ==
    [][/\ Len(messages') >= Len(messages)
       /\ SubSeq(messages', 1, Len(messages)) = messages
       /\ (pc = "llm_call" /\ llm_calls' # llm_calls) =>
             /\ Len(Appended) = 2
             /\ Appended[1].type = "human"
             /\ Appended[2].type = "ai"
       /\ ToolNodeStep =>
             /\ Appended = results
             /\ \A k \in DOMAIN Appended : Appended[k].type = "tool"
       /\ (~(pc = "llm_call" /\ llm_calls' # llm_calls) /\ ~ToolNodeStep)
             => messages' = messages]_vars

\* a second turn has been appended after a turn with tool results
C27_Witness ==
    /\ Len(messages) >= 5
    /\ messages[1].type = "human"
    /\ messages[2].type = "ai"
    /\ messages[3].type = "tool"
    /\ messages[Len(messages)].type = "ai"
    /\ llm_calls = 2

\* positions of the transcript that hold an entry of the given type
EntriesOf(type) == { k \in DOMAIN messages : messages[k].type = type }

\* C28: llm_calls goes up by exactly one in every llm_call that completes
\* and is changed by no other step, tool_node included; so it always equals
\* the number of observation entries and the number of decision entries of
\* the transcript.
C28_TurnCounterCountsLlmCalls ==
    /\ [](/\ llm_calls = Cardinality(EntriesOf("human"))
          /\ llm_calls = Cardinality(EntriesOf("ai")))
    /\ [][/\ LlmCallStep => llm_calls' = llm_calls + 1
          /\ ~LlmCallStep => llm_calls' = llm_calls]_vars

\* a tool_node that appended two results lies between two llm_calls, and
\* the counter stands at two
C28_Witness ==
    /\ llm_calls = 2
    /\ Cardinality(EntriesOf("tool")) = 2
    /\ Cardinality(EntriesOf("human")) = 2
    /\ steps = 3

\* tool_node is due or running
InToolNode == pc \in {"tool_node", "tool_loop"}

\* C29: the steps of a session alternate: tool_node is due only right after
\* an llm_call whose reply carried at least one tool call, and that reply
\* is the last entry of the transcript for as long as tool_node runs; a
\* tool_node that returns hands over to llm_call or END, never to another
\* tool_node; and while llm_call is due no tool coroutine is in flight and
\* no tool result is pending.
C29_StepsAlternate ==
    /\ [](InToolNode =>
            /\ messages # <<>>
            /\ messages[Len(messages)].type = "ai"
            /\ Len(messages[Len(messages)].tool_calls) > 0)
    /\ [](pc \in {"llm_call", "awaiting_llm"} => (in_flight = 0 /\ results = <<>>))
    /\ [][pc' = "tool_node" => LlmCallStep]_vars
    /\ [][ToolNodeStep => pc' # "tool_node"]_vars

\* the second invocation of a reply is in flight inside tool_node
C29_Witness ==
    /\ pc = "tool_loop"
    /\ in_flight = 1
    /\ done = 1
    /\ Len(LastToolCalls) = 2

\* number of entries of a sequence that belong to the tool call with this id
TimesIn(seq, field, id) == Cardinality({ k \in DOMAIN seq : seq[k][field] = id })

\* the results of the sequence that are error strings
ErrorsIn(seq) ==
    { k \in DOMAIN seq : seq[k].type = "tool" /\ seq[k].content[1] = "ERROR" }

\* C30: no retry and no abort on a failed tool: every tool call is run on
\* the environment at most once and gets at most one result; a tool await
\* that returns an ERROR string leaves status, finished and the position of
\* the graph alone and the loop goes on to the next call; and a tool_node
\* whose results hold an ERROR string and no finish appends them all and
\* goes back to llm_call with the status unchanged.
C30_NoRetryNoAbort ==
    /\ [](\A c \in IssuedCalls :
            /\ TimesIn(env_actions, "id", c.id) <= 1
            /\ TimesIn(SelectSeq(messages \o results, LAMBDA m : m.type = "tool"),
                       "tool_call_id", c.id) <= 1)
    /\ [][(pc = "tool_loop" /\ Len(results') = Len(results) + 1
             /\ results'[Len(results')].content[1] = "ERROR")
            => (/\ pc' = "tool_loop"
                /\ done' = done + 1
                /\ UNCHANGED << status, local_status, finished, error >>)]_vars
    /\ [][(ToolNodeStep /\ ErrorsIn(results) # {} /\ ~finished)
            => (/\ pc' = "llm_call"
                /\ status' = status
                /\ Appended = results)]_vars

\* an operation failed, its error string is in the transcript, the session
\* went on: the next llm_call has run with the status still in_progress
C30_Witness ==
    /\ \E k \in ErrorsIn(messages) : messages[k].content[2] # "Unknown tool"
    /\ \E a \in Range(env_actions) : a.outcome \in {"raised", "timeout"}
    /\ llm_calls = 2
    /\ status = "in_progress"

(***************************************************************************)
(* Properties of the wait tool (SpecWait).                                 *)
(***************************************************************************)
\* C31: whatever number of seconds is asked for -- negative, zero, in range
\* or above the ceiling -- the wait tool sleeps exactly
\* max(0, min(seconds, 10)) seconds and never more than 10, runs no
\* operation on the environment, and returns "OK: waited <duration> seconds".
C31_WaitIsClamped ==
    /\ slept <= 10
    /\ env_actions = <<>> /\ pointer_actions = <<>>
    /\ wait_pc = "returned" =>
          /\ wait_seconds < 0 => slept = 0
          /\ wait_seconds \in 0..10 => slept = wait_seconds
          /\ wait_seconds > 10 => slept = 10
          /\ wait_result = << "OK", "waited", slept, "seconds" >>

\* a wait above the ceiling has returned
C31_Witness ==
    /\ wait_pc = "returned"
    /\ wait_seconds > 10
    /\ slept = 10

(***************************************************************************)
(* Properties of the script executor (SpecScript).                         *)
(***************************************************************************)
\* the function definitions among the top-level items of the script
TopLevelDefs ==
    { k \in DOMAIN script.body : script.body[k].kind \in {"async_def", "def"} }

\* the script is one the validation has to refuse
Malformed ==
    \/ ~script.parses
    \/ Cardinality(TopLevelDefs) > 1
    \/ \E k \in TopLevelDefs :
          \/ script.body[k].kind # "async_def"
          \/ script.body[k].name # "main"
          \/ script.body[k].arity # 1
    \/ \E k \in DOMAIN script.body : script.body[k].kind = "stmt"

\* C32: a script that does not parse, has more than one top-level
\* definition, has a top-level definition that is not an asynchronous
\* function main with exactly one parameter, or has an extra top-level
\* statement gets "ERROR: format: ..." and nothing of it is executed.
C32_ValidatedBeforeExecuted ==
    Malformed =>
        /\ script_effects = <<>>
        /\ script_pc # "executing"
        /\ script_pc = "returned" => script_result = << "ERROR", "format" >>

\* run has refused a script whose only fault is the arity of main
C32_Witness ==
    /\ script_pc = "returned"
    /\ script.parses
    /\ Len(script.body) = 1
    /\ script.body[1] = [kind |-> "async_def", name |-> "main", arity |-> 2]
    /\ script_result = << "ERROR", "format" >>

(***************************************************************************)
(* Further properties of the agent graph of src/agent.py (SpecLegacy).     *)
(***************************************************************************)
\* C33: when a reply carries no tool call while task_success is false and
\* calls are left in the budget, the graph goes to llm_call again: the
\* session neither ends there nor fails with a routing error.
C33_NoCallsLoopsBack ==
    [][(/\ LlmCallStep
        /\ messages'[Len(messages')].tool_calls = <<>>
        /\ ~task_success'
        /\ llm_calls' < MAX_LLM_CALLS)
          => (pc' = "llm_call" /\ error' = "none")]_vars

\* C34: llm_calls never exceeds MAX_LLM_CALLS: no llm_call is due once the
\* counter has reached the ceiling, and the tool calls of the reply that
\* reached it are never handled -- no operation runs and no result is made
\* for them.
C34_CeilingHolds ==
    /\ llm_calls <= MAX_LLM_CALLS
    /\ pc = "llm_call" => llm_calls < MAX_LLM_CALLS
    /\ InToolNode => llm_calls < MAX_LLM_CALLS
    /\ \A k \in DOMAIN env_actions : env_actions[k].id[1] < MAX_LLM_CALLS
    /\ \A m \in ToolResults : m.tool_call_id[1] < MAX_LLM_CALLS

\* the reply that reached the ceiling carried tool calls; the session is at
\* END without success, after tools of an earlier reply had run
C34_Witness ==
    /\ llm_calls = MAX_LLM_CALLS
    /\ pc = "END"
    /\ ~task_success
    /\ Len(messages[Len(messages)].tool_calls) > 0
    /\ env_actions # <<>>

(***************************************************************************)
(* Properties of the status of src/src/agent.py (Spec).                    *)
(***************************************************************************)
\* the reply tool_node is working on carries a finish invocation
ReplyHasFinish == \E c \in Range(LastToolCalls) : c.name = "finish"

\* C35: the status leaves in_progress only through finish: llm_call never
\* changes it, a tool_node whose reply has no finish invocation never
\* changes it, no other step changes it, and a status of success or failure
\* always has in the transcript a decision with a finish invocation whose
\* reason reads as that status.
C35_StatusOnlyThroughFinish ==
    /\ [][LlmCallStep => status' = status]_vars
    /\ [][(ToolNodeStep /\ ~ReplyHasFinish) => status' = status]_vars
    /\ [][status' # status => (ToolNodeStep /\ ReplyHasFinish)]_vars
    /\ [](status \in {"success", "failure"} =>
            \E c \in IssuedCalls :
                c.name = "finish" /\ ExpectedStatus(c.args.reason) = status)

\* a finish with a reason that reads as failure has set the status, in a
\* reply that also carried another invocation
C35_Witness ==
    /\ status = "failure"
    /\ pc = "END"
    /\ Len(LastReplyCalls) = 2
    /\ \E c \in Range(LastReplyCalls) : c.name # "finish"

\* C36: task_success is a latch that only llm_call sets: once true it stays
\* true and nothing more is run (so the predicate is not asked again),
\* tool_node never changes it, tool_node only runs while it is false, and a
\* tool_node that returns never ends the session.
C36_TaskSuccessIsLatch ==
    /\ [][task_success => UNCHANGED << task_success, pred_raised, llm_calls,
                                       messages, env_actions >>]_vars
    /\ [][task_success' # task_success => (LlmCallStep /\ task_success')]_vars
    /\ [](InToolNode => ~task_success)
    /\ [][ToolNodeStep => (pc' = "llm_call" /\ task_success' = task_success)]_vars

\* the latch was set by the second llm_call, after a tool_node had run its
\* tools and handed back to llm_call
C36_Witness ==
    /\ task_success
    /\ llm_calls = 2
    /\ env_actions # <<>>
    /\ EntriesOf("tool") # {}

(***************************************************************************)
(* Further properties of run_all (SpecRunAll).                             *)
(***************************************************************************)
\* C37: every environment instance a session created is torn down by that
\* session on every path out of it: once run_test_case_* has been left,
\* by return or by exception, the session's context is closed (its sandbox
\* stopped); and it is not closed while the session is still running.
C37_TornDownOnEveryPath ==
    \A i \in Cases :
        /\ tasks[i] \in {"done", "raised"} => env_of[i] \notin open_envs
        /\ tasks[i] = "running" => env_of[i] \in open_envs

\* a step of some session: through the gate, or on inside it
SessionStep ==
    \/ sem_acquire
    \/ browser_new_context
    \/ browser_new_page
    \/ computer_create
    \/ computer_run
    \/ session_body
    \/ browser_close
    \/ computer_stop

\* C38: run_all cannot deadlock on its gate, whatever the concurrency
\* argument: the gate holds max(1, concurrency) slots, every slot taken is
\* given back exactly once -- also by a session that raises -- so the free
\* slots and the sessions inside always add up to the capacity; with
\* concurrency <= 0 sessions run one at a time; and as long as run_all is
\* running and a session has not finished, some session can take a step.
C38_GateNeverDeadlocks ==
    /\ sem >= 0
    /\ sem + Cardinality(ActiveSessions) = (IF concurrency >= 1 THEN concurrency ELSE 1)
    /\ concurrency <= 0 => Cardinality(ActiveSessions) <= 1
    /\ (LoopRunning /\ \E i \in Cases : tasks[i] \notin {"done", "raised"})
          => ENABLED SessionStep

\* concurrency 0: one session raised inside the gate, another one went
\* through the gate after it and finished
C38_Witness ==
    /\ concurrency = 0
    /\ \E i \in Cases : tasks[i] = "raised"
    /\ \E i \in Cases : tasks[i] = "done"
    /\ sem = 1

(***************************************************************************)
(* Properties of save_run_to_api (SpecSave).                               *)
(***************************************************************************)
\* the file holds a well-formed token whose exp lies ahead of the clock
TokenUsable ==
    /\ auth_file.kind = "token"
    /\ auth_file.parts = 3
    /\ auth_file.payload = "exp"
    /\ clock <= auth_file.exp

\* C39: persisting a run never affects the session: save_run_to_api never
\* raises to its caller, whatever fails (no token or an expired one, a
\* network error, a reply other than 200, messages that do not serialize);
\* without a valid unexpired token nothing is sent; and what is sent is the
\* status the caller passed in, which the call leaves as it was.
C39_SaveNeverAffectsSession ==
    /\ save_pc # "raised"
    /\ sent => TokenUsable
    /\ sent => payload.status = save_args.status

====
